---- MODULE Spec2Model ----
(***************************************************************************)
(* The RFID card writer sketch of src/src/secret_sauce.h: setup(), loop()  *)
(* and writeBlock().                                                       *)
(*                                                                         *)
(* Text is a sequence of byte codes.  One pass of loop() is walked through *)
(* program positions (pc); ev is the list of driver and console calls the  *)
(* pass has made so far, emptied when the pass returns.                    *)
(*                                                                         *)
(* Block structure of loop(): the braces are paired the way the language   *)
(* pairs them (each closing brace ends the innermost open block, an else   *)
(* belongs to the nearest if).  The brace of line 48 therefore ends the    *)
(* block opened at line 36, the else of line 45 belongs to the if of line  *)
(* 39, and the brace of line 68 ends the block opened at line 31: the      *)
(* "if (readyToWrite)" statement of lines 51-67 lies inside                *)
(* "if (Serial.available())".  The body of loop() ends after line 68.      *)
(***************************************************************************)
EXTENDS Integers, Sequences, FiniteSets, TLC

VARIABLES pc, key, inputName, inputID, readyToWrite, line, tag, tagBefore, ev,
          backlog

vars == <<pc, key, inputName, inputID, readyToWrite, line, tag, tagBefore, ev,
          backlog>>

\* ------------------------------------------------------------------ bounds
\* Every text of at most MaxLineLen bytes over Alphabet is a console line.
MaxLineLen == 3
\* backlog counts parsed lines minus card write cycles, saturating here.
MaxBacklog == 1

\* ------------------------------------------------------- program constants
BlockSize == 16
NameBlock == 4
IdBlock == 8
KeyLen == 6
KeyByte == 255
DebounceMs == 2000
Colon == 58
Space == 32
Nul == 0

Blocks == {NameBlock, IdBlock}

\* ------------------------------------------------------------------- texts
Min(a, b) == IF a < b THEN a ELSE b

\* 'A', ' ', ':'
Alphabet == {65, Space, Colon}

TextsUpTo(n) == UNION {[1..k -> Alphabet] : k \in 0..n}

\* "ABCDEFG..." : n distinct letters
Letters(n) == [i \in 1..n |-> 64 + i]

\* Lines longer than MaxLineLen: 'A : B', ' A::A' followed by a carriage
\* return, names of BlockSize-1, BlockSize and BlockSize+1 bytes, an id of
\* BlockSize bytes.
ScenarioLines ==
  {<<65, Space, Colon, Space, 66>>, <<Space, 65, Colon, Colon, 65, 13>>}
    \cup {Letters(n) \o <<Colon, 65>> : n \in (BlockSize - 1)..(BlockSize + 1)}
    \cup {<<65, Colon>> \o Letters(BlockSize)}

\* What Serial.readStringUntil('\n') can return.
Lines == TextsUpTo(MaxLineLen) \cup ScenarioLines

\* ------------------------------------------------------- String operations
isspace(c) == c \in {9, 10, 11, 12, 13, Space}

\* Drops leading whitespace only.
trimLeading(s) ==
  LET keep == {i \in 1..Len(s) : ~isspace(s[i])}
  IN  IF keep = {} THEN <<>>
      ELSE SubSeq(s, CHOOSE i \in keep : \A j \in keep : i <= j, Len(s))

\* String::trim(): drops leading and trailing whitespace.
trim(s) ==
  LET keep == {i \in 1..Len(s) : ~isspace(s[i])}
  IN  IF keep = {} THEN <<>>
      ELSE LET first == CHOOSE i \in keep : \A j \in keep : i <= j
               last  == CHOOSE i \in keep : \A j \in keep : j <= i
           IN  SubSeq(s, first, last)

\* 0-based position of the last ch, -1 if there is none.
lastIndexOf(s, ch) ==
  LET hits == {i \in 1..Len(s) : s[i] = ch}
  IN  IF hits = {} THEN -1
      ELSE (CHOOSE i \in hits : \A j \in hits : j <= i) - 1

\* String::indexOf(ch): 0-based position of the first ch, -1 if there is none.
indexOf(s, ch) ==
  LET hits == {i \in 1..Len(s) : s[i] = ch}
  IN  IF hits = {} THEN -1
      ELSE (CHOOSE i \in hits : \A j \in hits : i <= j) - 1

\* String::substring(left, right): the bytes at 0-based positions left..right-1.
substring(s, from, to) ==
  LET left  == Min(from, to)
      right0 == IF from < to THEN to ELSE from
      right == Min(right0, Len(s))
  IN  IF left >= Len(s) THEN <<>> ELSE SubSeq(s, left + 1, right)

\* a < b for two 32-bit words read as unsigned (two's complement operands):
\* the comparison the language makes between an int and an unsigned int.
UnsignedLT(a, b) == IF (a >= 0) = (b >= 0) THEN a < b ELSE b < 0

\* String::getBytes(buf, bufsize): copies at most bufsize-1 bytes of the text,
\* then a terminating NUL; the rest of buf keeps what it held (stack).
getBytes(data, bufsize, stack) ==
  LET n == Min(bufsize - 1, Len(data))
  IN  [i \in 1..bufsize |->
         IF i <= n THEN data[i] ELSE IF i = n + 1 THEN Nul ELSE stack[i]]

\* What the uninitialised "byte buffer[16]" may hold before getBytes.
StackImages == {[i \in 1..BlockSize |-> 0], [i \in 1..BlockSize |-> 255]}

\* What the blocks of a presented card may hold.
CardImages == {[i \in 1..BlockSize |-> 0], [i \in 1..BlockSize |-> 65]}

\* ------------------------------------------------------------------ events
Ev(op, block, ok, msg, data) ==
  [op |-> op, block |-> block, ok |-> ok, msg |-> msg, data |-> data]

Call(op, ok) == Ev(op, 0, ok, "", <<>>)
Say(msg) == Ev("print", 0, TRUE, msg, <<>>)
SayText(msg, text) == Ev("print", 0, TRUE, msg, text)
SayBlock(msg, b) == Ev("print", b, TRUE, msg, <<>>)

\* --------------------------------------------------------------- the parser
\* A parser that drops the pending record when it rejects a line.
parseLineResets(t, name, id, ready) ==
  LET sep == indexOf(t, Colon)
  IN  IF sep > 0 /\ UnsignedLT(sep, Len(t) - 1)
      THEN [name |-> substring(t, 0, sep), id |-> substring(t, sep + 1, Len(t)),
            ready |-> TRUE, captured |-> TRUE,
            out |-> <<Say("captured"), SayText("name", substring(t, 0, sep)),
                      SayText("id", substring(t, sep + 1, Len(t))),
                      Say("place card")>>]
      ELSE [name |-> <<>>, id |-> <<>>, ready |-> FALSE, captured |-> FALSE,
            out |-> <<>>]

\* A parser that stores the name before it has checked that an id follows.
parseLineNameFirst(t, name, id, ready) ==
  LET sep == indexOf(t, Colon)
  IN  IF sep > 0 /\ UnsignedLT(sep, Len(t) - 1)
      THEN [name |-> substring(t, 0, sep), id |-> substring(t, sep + 1, Len(t)),
            ready |-> TRUE, captured |-> TRUE,
            out |-> <<Say("captured"), SayText("name", substring(t, 0, sep)),
                      SayText("id", substring(t, sep + 1, Len(t))),
                      Say("place card")>>]
      ELSE [name |-> IF sep > 0 THEN substring(t, 0, sep) ELSE name,
            id |-> id, ready |-> ready, captured |-> FALSE, out |-> <<>>]

\* Lines 35-48 of loop(), applied to the trimmed line t with the globals
\* name, id, ready: the new globals, the console output, and whether the
\* record was captured.
parseLine(t, name, id, ready) ==
  LET sep == indexOf(t, Colon)
  IN  IF sep > 0 /\ UnsignedLT(sep, Len(t) - 1)
      THEN LET n == substring(t, 0, sep)
               d == substring(t, sep + 1, Len(t))
           IN  IF Len(n) > 0 /\ Len(d) > 0
               THEN [name |-> n, id |-> d, ready |-> TRUE, captured |-> TRUE,
                     out |-> <<Say("captured"), SayText("name", n),
                               SayText("id", d), Say("place card")>>]
               ELSE [name |-> n, id |-> d, ready |-> ready, captured |-> FALSE,
                     out |-> <<Say("invalid format")>>]
      ELSE [name |-> name, id |-> id, ready |-> ready, captured |-> FALSE,
            out |-> <<>>]

\* ---------------------------------------------------------- the block writer
\* A block writer that goes on to the write after a failed authentication.
writeBlockNoReturn(blockAddr, data, k, stack, authOK, writeOK, card) ==
  LET buffer == getBytes(data, BlockSize, stack)
      entry  == Ev("writeBlock", blockAddr, TRUE, "", data)
      auth   == Ev("PCD_Authenticate", blockAddr, authOK, "KEY_A", k)
      said   == IF authOK THEN <<>> ELSE <<SayBlock("auth failed", blockAddr)>>
  IN  IF ~writeOK
      THEN [out |-> <<entry, auth>> \o said
                      \o <<Ev("MIFARE_Write", blockAddr, FALSE, "", buffer),
                           SayBlock("write failed", blockAddr)>>,
            card |-> card]
      ELSE [out |-> <<entry, auth>> \o said
                      \o <<Ev("MIFARE_Write", blockAddr, TRUE, "", buffer),
                           SayBlock("written", blockAddr)>>,
            card |-> [card EXCEPT ![blockAddr] = buffer]]

\* writeBlock(blockAddr, data) on the card whose blocks are card, with the
\* key k, the prior content stack of its buffer, and the driver's two
\* answers: the calls it makes (its own entry with the text it was given
\* first) and the card afterwards.
writeBlock(blockAddr, data, k, stack, authOK, writeOK, card) ==
  LET buffer == getBytes(data, BlockSize, stack)
      entry  == Ev("writeBlock", blockAddr, TRUE, "", data)
      auth   == Ev("PCD_Authenticate", blockAddr, authOK, "KEY_A", k)
  IN  IF ~authOK
      THEN [out |-> <<entry, auth, SayBlock("auth failed", blockAddr)>>,
            card |-> card]
      ELSE IF ~writeOK
      THEN [out |-> <<entry, auth,
                      Ev("MIFARE_Write", blockAddr, FALSE, "", buffer),
                      SayBlock("write failed", blockAddr)>>,
            card |-> card]
      ELSE [out |-> <<entry, auth,
                      Ev("MIFARE_Write", blockAddr, TRUE, "", buffer),
                      SayBlock("written", blockAddr)>>,
            card |-> [card EXCEPT ![blockAddr] = buffer]]

\* A pass that goes on to the reader whether or not a record is pending.
waitsAlways(ready) == TRUE

\* Line 51: whether this pass goes on to the reader.
waitsForCard(ready) == ready

\* An end of cycle that leaves the record pending.
closeCycleKeepsReady(ready) ==
  [ready |-> ready,
   out |-> <<Say("success"), Say("enter new"), Say("rule"),
             Call("PICC_HaltA", TRUE), Call("PCD_StopCrypto1", TRUE),
             Ev("delay", 0, TRUE, "", <<DebounceMs>>)>>]

\* An end of cycle that leaves the crypto session open.
closeCycleLeavesCrypto(ready) ==
  [ready |-> FALSE,
   out |-> <<Say("success"), Say("enter new"), Say("rule"),
             Call("PICC_HaltA", TRUE),
             Ev("delay", 0, TRUE, "", <<DebounceMs>>)>>]

\* Lines 59-66: the end of a card write cycle.
closeCycle(ready) ==
  [ready |-> FALSE,
   out |-> <<Say("success"), Say("enter new"), Say("rule"),
             Call("PICC_HaltA", TRUE), Call("PCD_StopCrypto1", TRUE),
             Ev("delay", 0, TRUE, "", <<DebounceMs>>)>>]

\* ----------------------------------------------------------------- actions
Init ==
  /\ pc = "setup"
  /\ key = [i \in 1..KeyLen |-> 0]
  /\ inputName = <<>>
  /\ inputID = <<>>
  /\ readyToWrite = FALSE
  /\ line = <<>>
  /\ tag = [b \in Blocks |-> [i \in 1..BlockSize |-> 0]]
  /\ tagBefore = [b \in Blocks |-> [i \in 1..BlockSize |-> 0]]
  /\ ev = <<>>
  /\ backlog = 0

setup ==
  /\ pc = "setup"
  /\ key' = [i \in 1..KeyLen |-> KeyByte]
  /\ ev' = <<Call("PCD_Init", TRUE), Say("banner")>>
  /\ pc' = "returned"
  /\ UNCHANGED <<inputName, inputID, readyToWrite, line, tag, tagBefore, backlog>>

\* The next call of loop(): a new pass begins.
loop_enter ==
  /\ pc = "returned"
  /\ pc' = "loop"
  /\ ev' = <<>>
  /\ line' = <<>>
  /\ tagBefore' = tag
  /\ UNCHANGED <<key, inputName, inputID, readyToWrite, tag, backlog>>

\* Line 31, no console input: the block of lines 31-68 is skipped.
loop_noInput ==
  /\ pc = "loop"
  /\ ev' = <<Call("Serial.available", FALSE)>>
  /\ pc' = "returned"
  /\ UNCHANGED <<key, inputName, inputID, readyToWrite, line, tag, tagBefore,
                 backlog>>

\* Lines 31-48: a line is read, trimmed and parsed.
loop_readLine ==
  /\ pc = "loop"
  /\ \E raw \in Lines :
       LET t == trim(raw)
           r == parseLine(t, inputName, inputID, readyToWrite)
       IN  /\ line' = t
           /\ inputName' = r.name
           /\ inputID' = r.id
           /\ readyToWrite' = r.ready
           /\ backlog' = IF r.captured THEN Min(backlog + 1, MaxBacklog)
                         ELSE backlog
           /\ ev' = <<Call("Serial.available", TRUE),
                      Ev("readStringUntil", 0, TRUE, "", raw)>> \o r.out
  /\ pc' = "poll"
  /\ UNCHANGED <<key, tag, tagBefore>>

\* Line 51, nothing pending.
loop_notReady ==
  /\ pc = "poll"
  /\ ~waitsForCard(readyToWrite)
  /\ pc' = "returned"
  /\ UNCHANGED <<key, inputName, inputID, readyToWrite, line, tag, tagBefore,
                 ev, backlog>>

\* A pass that gives the record up when it finds no card.
loop_noCardDropsRecord ==
  /\ pc = "poll"
  /\ waitsForCard(readyToWrite)
  /\ \/ ev' = ev \o <<Call("PICC_IsNewCardPresent", FALSE)>>
     \/ ev' = ev \o <<Call("PICC_IsNewCardPresent", TRUE),
                      Call("PICC_ReadCardSerial", FALSE)>>
  /\ readyToWrite' = FALSE
  /\ pc' = "returned"
  /\ UNCHANGED <<key, inputName, inputID, line, tag, tagBefore, backlog>>

\* Lines 52-53: no new card, or its serial cannot be read.
loop_noCard ==
  /\ pc = "poll"
  /\ waitsForCard(readyToWrite)
  /\ \/ ev' = ev \o <<Call("PICC_IsNewCardPresent", FALSE)>>
     \/ ev' = ev \o <<Call("PICC_IsNewCardPresent", TRUE),
                      Call("PICC_ReadCardSerial", FALSE)>>
  /\ pc' = "returned"
  /\ UNCHANGED <<key, inputName, inputID, readyToWrite, line, tag, tagBefore,
                 backlog>>

\* Line 52: a card is in the field and selected.
loop_cardFound ==
  /\ pc = "poll"
  /\ waitsForCard(readyToWrite)
  /\ ev' = ev \o <<Call("PICC_IsNewCardPresent", TRUE),
                   Call("PICC_ReadCardSerial", TRUE)>>
  /\ \E c \in CardImages :
       /\ tag' = [b \in Blocks |-> c]
       /\ tagBefore' = [b \in Blocks |-> c]
  /\ pc' = "writeName"
  /\ UNCHANGED <<key, inputName, inputID, readyToWrite, line, backlog>>

\* A name write that gives up the card when block 4 is not written.
loop_writeNameOrStop ==
  /\ pc = "writeName"
  /\ \E stack \in StackImages, authOK \in BOOLEAN, writeOK \in BOOLEAN :
       LET r == writeBlock(NameBlock, inputName, key, stack, authOK, writeOK, tag)
       IN  /\ ev' = ev \o r.out
           /\ tag' = r.card
           /\ pc' = IF authOK /\ writeOK THEN "writeID" ELSE "finish"
  /\ UNCHANGED <<key, inputName, inputID, readyToWrite, line, tagBefore, backlog>>

\* Line 56.
loop_writeName ==
  /\ pc = "writeName"
  /\ \E stack \in StackImages, authOK \in BOOLEAN, writeOK \in BOOLEAN :
       LET r == writeBlock(NameBlock, inputName, key, stack, authOK, writeOK, tag)
       IN  ev' = ev \o r.out /\ tag' = r.card
  /\ pc' = "writeID"
  /\ UNCHANGED <<key, inputName, inputID, readyToWrite, line, tagBefore, backlog>>

\* An id write that puts block 4 back when block 8 is not written.
loop_writeIDRollback ==
  /\ pc = "writeID"
  /\ \E stack \in StackImages, authOK \in BOOLEAN, writeOK \in BOOLEAN :
       LET r == writeBlock(IdBlock, inputID, key, stack, authOK, writeOK, tag)
       IN  /\ ev' = ev \o r.out
           /\ tag' = IF authOK /\ writeOK THEN r.card ELSE tagBefore
  /\ pc' = "finish"
  /\ UNCHANGED <<key, inputName, inputID, readyToWrite, line, tagBefore, backlog>>

\* Line 57.
loop_writeID ==
  /\ pc = "writeID"
  /\ \E stack \in StackImages, authOK \in BOOLEAN, writeOK \in BOOLEAN :
       LET r == writeBlock(IdBlock, inputID, key, stack, authOK, writeOK, tag)
       IN  ev' = ev \o r.out /\ tag' = r.card
  /\ pc' = "finish"
  /\ UNCHANGED <<key, inputName, inputID, readyToWrite, line, tagBefore, backlog>>

\* An end of cycle that reports success only when a block was written.
loop_finishQuiet ==
  /\ pc = "finish"
  /\ LET r == closeCycle(readyToWrite)
         written == \E i \in DOMAIN ev : ev[i].op = "MIFARE_Write" /\ ev[i].ok
     IN  /\ readyToWrite' = r.ready
         /\ ev' = ev \o (IF written THEN r.out ELSE Tail(r.out))
  /\ backlog' = backlog - 1
  /\ pc' = "returned"
  /\ UNCHANGED <<key, inputName, inputID, line, tag, tagBefore>>

\* Lines 59-67.
loop_finish ==
  /\ pc = "finish"
  /\ LET r == closeCycle(readyToWrite)
     IN  readyToWrite' = r.ready /\ ev' = ev \o r.out
  /\ backlog' = backlog - 1
  /\ pc' = "returned"
  /\ UNCHANGED <<key, inputName, inputID, line, tag, tagBefore>>

Next ==
  \/ setup
  \/ loop_enter
  \/ loop_noInput
  \/ loop_readLine
  \/ loop_notReady
  \/ loop_noCard
  \/ loop_cardFound
  \/ loop_writeName
  \/ loop_writeID
  \/ loop_finish

Spec == Init /\ [][Next]_vars

\* ------------------------------------------------- what a pass has done
Did(op, ok) == \E i \in DOMAIN ev : ev[i].op = op /\ ev[i].ok = ok
Said(msg) == \E i \in DOMAIN ev : ev[i].op = "print" /\ ev[i].msg = msg
SaidBlock(msg, b) ==
  \E i \in DOMAIN ev : ev[i].op = "print" /\ ev[i].msg = msg /\ ev[i].block = b

\* Positions of the authenticate and write-block calls of this pass.
TagCalls == {i \in DOMAIN ev : ev[i].op \in {"PCD_Authenticate", "MIFARE_Write"}}

\* Both detection calls answered yes before position i.
DetectedBefore(i) ==
  \E j \in 1..(i - 1), k \in 1..(i - 1) :
    /\ j < k
    /\ ev[j] = Call("PICC_IsNewCardPresent", TRUE)
    /\ ev[k] = Call("PICC_ReadCardSerial", TRUE)

LineRead == \E i \in DOMAIN ev : ev[i].op = "readStringUntil"
RawLine == ev[CHOOSE i \in DOMAIN ev : ev[i].op = "readStringUntil"].data
Captured == Said("captured")

\* The pass ran a card write cycle to its end.
CycleClosed == pc = "returned" /\ Did("PICC_HaltA", TRUE)

IsBlank(s) == \A i \in DOMAIN s : isspace(s[i])
NoOuterSpace(s) == s = <<>> \/ (~isspace(s[1]) /\ ~isspace(s[Len(s)]))

\* t is raw without its leading and trailing whitespace.
IsTrimOf(t, raw) ==
  /\ NoOuterSpace(t)
  /\ \E a \in 0..Len(raw), b \in 0..Len(raw) :
       /\ a + Len(t) + b = Len(raw)
       /\ IsBlank(SubSeq(raw, 1, a))
       /\ IsBlank(SubSeq(raw, Len(raw) - b + 1, Len(raw)))
       /\ t = SubSeq(raw, a + 1, Len(raw) - b)

\* k is the place (from 1) of the first ':' of t.
FirstColonAt(t, k) ==
  k \in 1..Len(t) /\ t[k] = Colon /\ \A j \in 1..(k - 1) : t[j] # Colon

\* A ':' whose first occurrence is neither the first nor the last byte.
WellFormed(t) == \E k \in 2..(Len(t) - 1) : FirstColonAt(t, k)

\* No ':', or the first ':' at the first or at the last byte.
Rejected(t) ==
  \/ \A k \in 1..Len(t) : t[k] # Colon
  \/ FirstColonAt(t, 1)
  \/ FirstColonAt(t, Len(t))

\* ------------------------------------------------------------------ claims

\* C1: an authenticate or write-block call is made only in a pass in which
\* readyToWrite is true and detect-new-tag and read-tag-serial both answered
\* yes earlier in that same pass.
C1_WriteNeedsReadyAndCard ==
  /\ \A i \in TagCalls : DetectedBefore(i)
  /\ pc \in {"writeName", "writeID"} => readyToWrite
  /\ (TagCalls # {} /\ pc # "returned") => readyToWrite

C1_Witness ==
  /\ pc = "finish"
  /\ readyToWrite
  /\ Did("MIFARE_Write", TRUE)
  /\ Cardinality(TagCalls) = 4

\* C2: when a card write cycle has ended, whatever the outcome of each block,
\* readyToWrite is false; readyToWrite becomes true only by a captured line,
\* tag calls are made only while it is true, and the card write cycles never
\* outnumber the captured lines.
C2_OneCyclePerRecord ==
  /\ [](CycleClosed => ~readyToWrite)
  /\ [](backlog >= 0)
  /\ [][(~readyToWrite /\ readyToWrite') => (pc = "loop" /\ Captured')]_vars
  /\ [][(TagCalls' # TagCalls /\ TagCalls' # {}) => readyToWrite]_vars

C2_Witness ==
  /\ CycleClosed
  /\ ~readyToWrite
  /\ Did("PCD_Authenticate", FALSE)
  /\ Did("MIFARE_Write", FALSE)

\* C3: a line whose trimmed text has its first ':' neither first nor last is
\* split at that ':': inputName is the text before it, inputID all the text
\* after it (later ':' included), and readyToWrite is set.
C3_SplitAtFirstColon ==
  (pc = "poll" /\ LineRead) =>
    /\ IsTrimOf(line, RawLine)
    /\ WellFormed(line) =>
         /\ \E k \in 1..Len(line) :
              /\ FirstColonAt(line, k)
              /\ inputName = SubSeq(line, 1, k - 1)
              /\ inputID = SubSeq(line, k + 1, Len(line))
         /\ readyToWrite
         /\ Captured

C3_Witness ==
  /\ pc = "poll"
  /\ LineRead
  /\ RawLine # line
  /\ WellFormed(line)
  /\ \E i \in DOMAIN inputID : inputID[i] = Colon
  /\ readyToWrite

\* C4 as stated: the stored name and the stored id of a captured line are
\* each trimmed, neither has leading or trailing whitespace.
C4_BothFieldsTrimmed ==
  (pc = "poll" /\ Captured) => (NoOuterSpace(inputName) /\ NoOuterSpace(inputID))

\* C4 as amended: the line is trimmed as a whole before it is split, so the
\* stored name has no leading whitespace, the stored id has no trailing
\* whitespace, and name, ':' and id together are the line read without its
\* leading and trailing whitespace (whitespace next to the ':' is kept).
C4_LineTrimmedBeforeSplit ==
  (pc = "poll" /\ Captured) =>
    /\ ~isspace(inputName[1])
    /\ ~isspace(inputID[Len(inputID)])
    /\ IsTrimOf(inputName \o <<Colon>> \o inputID, RawLine)

C4_Witness ==
  /\ pc = "poll"
  /\ Captured
  /\ RawLine = <<65, Space, Colon, Space, 66>>
  /\ inputName = <<65, Space>>
  /\ inputID = <<Space, 66>>

\* C5: a line with no ':', or with its first ':' as its first or its last
\* byte, leaves inputName, inputID and readyToWrite as they were before the
\* line was read.
C5_RejectedLineKeepsRecord ==
  [][(pc = "loop" /\ pc' = "poll" /\ Rejected(line'))
       => UNCHANGED <<inputName, inputID, readyToWrite>>]_vars

C5_Witness ==
  /\ pc = "poll"
  /\ LineRead
  /\ Rejected(line)
  /\ Len(line) > 0
  /\ ~Captured
  /\ readyToWrite
  /\ Len(inputName) > 0
  /\ Len(inputID) > 0

\* C6: every line that fails parsing makes the pass print the invalid-format
\* warning.
C6_RejectedLineWarns ==
  (pc = "poll" /\ LineRead /\ Rejected(line)) => Said("invalid format")

\* C7: a failed authentication of a block is reported, is followed by no
\* write-block call for that block in the cycle and leaves the block's
\* content on the tag as it was; every write-block call comes directly after
\* a successful Key-A authentication of the same block.
C7_NoWriteWithoutAuth ==
  /\ \A i \in DOMAIN ev :
       (ev[i].op = "PCD_Authenticate" /\ ~ev[i].ok) =>
         /\ \A j \in DOMAIN ev :
              ev[j].op = "MIFARE_Write" => ev[j].block # ev[i].block
         /\ i < Len(ev)
         /\ ev[i + 1] = SayBlock("auth failed", ev[i].block)
         /\ tag[ev[i].block] = tagBefore[ev[i].block]
  /\ \A i \in DOMAIN ev :
       ev[i].op = "MIFARE_Write" =>
         /\ i > 1
         /\ ev[i - 1].op = "PCD_Authenticate"
         /\ ev[i - 1].block = ev[i].block
         /\ ev[i - 1].msg = "KEY_A"
         /\ ev[i - 1].ok

C7_Witness ==
  /\ pc = "returned"
  /\ Ev("PCD_Authenticate", NameBlock, FALSE, "KEY_A", key) \in {ev[i] : i \in DOMAIN ev}
  /\ tag[NameBlock] = tagBefore[NameBlock]
  /\ Did("MIFARE_Write", TRUE)
  /\ tag[IdBlock] # tagBefore[IdBlock]

\* The blocks of the writeBlock calls of this pass, in order: each call
\* starts with its authenticate call.
BlocksTried ==
  LET auths == SelectSeq(ev, LAMBDA e : e.op = "PCD_Authenticate")
  IN  [i \in DOMAIN auths |-> auths[i].block]

AuthAnswer(b, ok) ==
  \E i \in DOMAIN ev :
    ev[i].op = "PCD_Authenticate" /\ ev[i].block = b /\ ev[i].ok = ok

WriteAnswer(b, ok) ==
  \E i \in DOMAIN ev :
    ev[i].op = "MIFARE_Write" /\ ev[i].block = b /\ ev[i].ok = ok

\* C8 as stated: a card write cycle calls the block writer once for block 4,
\* then once for block 8, whatever block 4's outcome; when the block-4
\* authentication fails and the block-8 authentication succeeds the cycle
\* reports AuthFailed(4) and WriteOk(8) and ends with readyToWrite false.
C8_AuthOkMeansWritten ==
  CycleClosed =>
    /\ BlocksTried = <<NameBlock, IdBlock>>
    /\ (AuthAnswer(NameBlock, FALSE) /\ AuthAnswer(IdBlock, TRUE)) =>
         /\ SaidBlock("auth failed", NameBlock)
         /\ SaidBlock("written", IdBlock)
         /\ ~readyToWrite

\* C8 as amended: the same, the report of WriteOk(8) being for the cycles in
\* which the block-8 write call succeeds as well; when it fails the cycle
\* reports WriteFailed(8).
C8_BothBlocksTried ==
  CycleClosed =>
    /\ BlocksTried = <<NameBlock, IdBlock>>
    /\ ~readyToWrite
    /\ (AuthAnswer(NameBlock, FALSE) /\ AuthAnswer(IdBlock, TRUE)) =>
         /\ SaidBlock("auth failed", NameBlock)
         /\ WriteAnswer(IdBlock, TRUE) => SaidBlock("written", IdBlock)
         /\ WriteAnswer(IdBlock, FALSE) => SaidBlock("write failed", IdBlock)

C8_Witness ==
  /\ CycleClosed
  /\ AuthAnswer(NameBlock, FALSE)
  /\ AuthAnswer(IdBlock, TRUE)
  /\ WriteAnswer(IdBlock, TRUE)
  /\ SaidBlock("written", IdBlock)
  /\ tag[IdBlock] # tagBefore[IdBlock]

\* C9: card detection is invoked once in every pass of loop() in which
\* readyToWrite is true, whether or not console input was available in it.
C9_DetectsEveryReadyPass ==
  (pc = "returned" /\ (Did("Serial.available", TRUE) \/ Did("Serial.available", FALSE))
     /\ (readyToWrite \/ CycleClosed))
    => Cardinality({i \in DOMAIN ev : ev[i].op = "PICC_IsNewCardPresent"}) = 1

\* C10: the payload handed to write-block carries the first
\* min(length, 16) bytes of the text given to writeBlock, in order.
C10_PayloadCarriesFirst16 ==
  \A i \in DOMAIN ev :
    ev[i].op = "MIFARE_Write" =>
      LET text == IF ev[i].block = NameBlock THEN inputName ELSE inputID
      IN  \A j \in 1..Min(Len(text), BlockSize) : ev[i].data[j] = text[j]

\* A pass of loop() has run to its end.
PassDone ==
  pc = "returned" /\ (Did("Serial.available", TRUE) \/ Did("Serial.available", FALSE))

\* The reader told this pass that there is no card to write to.
ToldNoCard ==
  Did("PICC_IsNewCardPresent", FALSE) \/ Did("PICC_ReadCardSerial", FALSE)

\* C11: no state is terminal, a well-formed line always sets readyToWrite,
\* and a record that is pending is written in the first pass in which a card
\* is there: a pass that ends with the record still pending has asked the
\* reader and was told that there is no card.
C11_PendingRecordMeetsCard ==
  /\ ENABLED Next
  /\ (pc = "poll" /\ LineRead /\ WellFormed(line)) => readyToWrite
  /\ (PassDone /\ readyToWrite) => ToldNoCard

\* The payload handed to the write-block call for block b in this pass.
Payload(b) ==
  ev[CHOOSE i \in DOMAIN ev : ev[i].op = "MIFARE_Write" /\ ev[i].block = b].data

\* C12: when the block-4 write succeeded and block 8 was not written
\* (authentication or write failed), from the end of the writes on the tag's
\* block 4 holds the payload made of the new name, block 8 holds what it held
\* before, block 8 was tried once; and while no record is pending no step
\* changes the tag.
C12_NoRollback ==
  /\ []((pc \in {"finish", "returned"} /\ WriteAnswer(NameBlock, TRUE)
           /\ ~WriteAnswer(IdBlock, TRUE)) =>
          /\ tag[NameBlock] = Payload(NameBlock)
          /\ \A j \in 1..Min(Len(inputName), BlockSize - 1) :
               tag[NameBlock][j] = inputName[j]
          /\ tag[IdBlock] = tagBefore[IdBlock]
          /\ BlocksTried = <<NameBlock, IdBlock>>)
  /\ [][~readyToWrite => tag' = tag]_vars

C12_Witness ==
  /\ CycleClosed
  /\ WriteAnswer(NameBlock, TRUE)
  /\ WriteAnswer(IdBlock, FALSE)
  /\ tag[NameBlock] # tagBefore[NameBlock]
  /\ tag[IdBlock] = tagBefore[IdBlock]

\* The texts given to the writeBlock calls of this pass, in order.
TextsPassed ==
  LET calls == SelectSeq(ev, LAMBDA e : e.op = "writeBlock")
  IN  [i \in DOMAIN calls |-> calls[i].data]

\* n and d are the text before and the text after the first ':' of t.
SplitOf(t, n, d) ==
  \E k \in 1..Len(t) :
    /\ FirstColonAt(t, k)
    /\ n = SubSeq(t, 1, k - 1)
    /\ d = SubSeq(t, k + 1, Len(t))

\* C13: a card write cycle gives writeBlock(4) and writeBlock(8) the name and
\* the id of one line, the most recently captured one: the two texts are
\* inputName and inputID, which change only when a line is captured, both
\* together and both from that line, whether or not the record before was
\* written; a rejected line changes neither.
C13_CycleWritesLastCapturedLine ==
  /\ []((pc \in {"finish", "returned"} /\ TagCalls # {}) =>
          /\ TextsPassed = <<inputName, inputID>>
          /\ Captured => SplitOf(line, inputName, inputID))
  /\ [][(inputName' # inputName \/ inputID' # inputID) =>
          (pc = "loop" /\ Captured')]_vars
  /\ [][(pc = "loop" /\ Captured') => SplitOf(line', inputName', inputID')]_vars

C13_Witness ==
  /\ CycleClosed
  /\ LineRead
  /\ Rejected(line)
  /\ Len(line) > 0
  /\ TextsPassed = <<inputName, inputID>>
  /\ inputName = <<65, Space>>
  /\ inputID = <<Space, 66>>

\* Positions in ev of the calls of op.
At(op) == {i \in DOMAIN ev : ev[i].op = op}

\* Positions of everything writeBlock does.
WriterCalls == At("writeBlock") \cup TagCalls

\* C14: a pass in which readyToWrite is true and detection reports no card
\* (no new tag, or an unreadable serial) returns at once: it makes no
\* writeBlock, authenticate, write-block, halt-tag or stop-crypto call and
\* takes no delay, and inputName, inputID, readyToWrite (true) and the tag
\* are as they were when detection was asked.
C14_NoCardNoEffect ==
  /\ []((PassDone /\ ToldNoCard) =>
          /\ readyToWrite
          /\ WriterCalls = {}
          /\ At("PICC_HaltA") = {}
          /\ At("PCD_StopCrypto1") = {}
          /\ At("delay") = {})
  /\ [][(pc = "poll" /\ ToldNoCard') =>
          /\ readyToWrite
          /\ pc' = "returned"
          /\ UNCHANGED <<inputName, inputID, readyToWrite, tag, key>>]_vars

C14_Witness ==
  /\ PassDone
  /\ Did("PICC_IsNewCardPresent", TRUE)
  /\ Did("PICC_ReadCardSerial", FALSE)
  /\ readyToWrite
  /\ Len(inputName) > 0

\* C15: a pass that called writeBlock returns only with the cycle closed:
\* after the two writeBlock calls, whatever their outcome, halt-tag, then
\* stop-crypto, then the delay of DebounceMs are each called exactly once,
\* the delay last, and the pass reads no console line and asks for no card
\* after its first writeBlock call.
C15_CycleClosedBeforeAnythingElse ==
  (pc = "returned" /\ WriterCalls # {}) =>
    /\ BlocksTried = <<NameBlock, IdBlock>>
    /\ Cardinality(At("PICC_HaltA")) = 1
    /\ Cardinality(At("PCD_StopCrypto1")) = 1
    /\ Cardinality(At("delay")) = 1
    /\ \A h \in At("PICC_HaltA"), c \in At("PCD_StopCrypto1"), d \in At("delay") :
         /\ \A w \in WriterCalls : w < h
         /\ h < c
         /\ c < d
         /\ d = Len(ev)
         /\ ev[d].data = <<DebounceMs>>
    /\ \A i \in At("Serial.available") \cup At("readStringUntil")
                 \cup At("PICC_IsNewCardPresent") \cup At("PICC_ReadCardSerial") :
         \A w \in WriterCalls : i < w

C15_Witness ==
  /\ CycleClosed
  /\ AuthAnswer(NameBlock, FALSE)
  /\ AuthAnswer(IdBlock, FALSE)
  /\ At("MIFARE_Write") = {}
  /\ ev[Len(ev)].op = "delay"

\* Positions of the overall "Data written successfully" line.
SuccessLines == {i \in DOMAIN ev : ev[i] = Say("success")}

\* C16: the overall success line is printed exactly once in every card write
\* cycle, after the two writeBlock calls and whatever they reported, and in
\* no pass without a cycle.
C16_SuccessLineUnconditional ==
  /\ CycleClosed =>
       /\ Cardinality(SuccessLines) = 1
       /\ \A i \in SuccessLines : \A w \in WriterCalls : w < i
  /\ (pc = "returned" /\ WriterCalls # {}) => CycleClosed
  /\ ~CycleClosed => SuccessLines = {}

C16_Witness ==
  /\ CycleClosed
  /\ Said("success")
  /\ SaidBlock("auth failed", NameBlock)
  /\ SaidBlock("auth failed", IdBlock)
  /\ ~Did("MIFARE_Write", TRUE)
  /\ tag = tagBefore

====
